---- MODULE Spec2Model ----
(***************************************************************************)
(* Model of ingest/prepare_data.py: write_csv (JSON lines -> fully quoted  *)
(* CSV) and the __main__ driver that runs it over the two declared inputs. *)
(*                                                                         *)
(* Text is modelled as sequences of code points, file content as sequences *)
(* of bytes.  A source line is modelled by what json.loads makes of it:    *)
(* kind "invalid" (not JSON), "array"/"null" (JSON, not an object) or      *)
(* "object" with obj a function from the keys present to values; a value   *)
(* is [t |-> "str" | "num" | "bool", s |-> its text].                      *)
(***************************************************************************)
EXTENDS Integers, Sequences, FiniteSets, TLC

VARIABLES
    sources,    \* source path -> [exists, lines]: the input files
    files,      \* path -> [exists, writable, data]: the files opened for writing
    before,     \* files as they were when the program started (history)
    jsonlines,  \* write_csv parameter: the sequence of lines iterated
    outcsv,     \* write_csv parameter: destination path
    fields,     \* write_csv parameter: ordered field names
    it,         \* 1-based position of the `for line in jsonlines` iterator
    pc,         \* position inside write_csv
    err,        \* exception propagating out of the current call, or "none"
    mpc,        \* position inside __main__ ("direct": write_csv called directly)
    job         \* index into inputs of the `for f in inputs` loop

vars == <<sources, files, before, jsonlines, outcsv, fields, it, pc, err, mpc, job>>

\* ------------------------------------------------------------------ bounds
MaxLines == 2
MaxMainLines == 1

\* ------------------------------------------------------------------ text
Str(s) == [t |-> "str", s |-> s]
Num(s) == [t |-> "num", s |-> s]
Bool(s) == [t |-> "bool", s |-> s]

\* '' : the default handed to obj.get
EmptyStr == Str(<<>>)

\* the bytes of the (ASCII) field names, as written in the source
NameBytes(k) ==
    CASE k = "product_name"   -> <<112,114,111,100,117,99,116,95,110,97,109,101>>
      [] k = "manufacturer"   -> <<109,97,110,117,102,97,99,116,117,114,101,114>>
      [] k = "family"         -> <<102,97,109,105,108,121>>
      [] k = "model"          -> <<109,111,100,101,108>>
      [] k = "announced-date" -> <<97,110,110,111,117,110,99,101,100,45,100,97,116,101>>
      [] k = "title"          -> <<116,105,116,108,101>>
      [] k = "currency"       -> <<99,117,114,114,101,110,99,121>>
      [] k = "price"          -> <<112,114,105,99,101>>

RECURSIVE Flatten(_)
Flatten(ss) == IF ss = <<>> THEN <<>> ELSE Head(ss) \o Flatten(Tail(ss))

\* unicode.encode('utf8') of one code point
utf8_char(c) ==
    IF c < 128 THEN <<c>>
    ELSE IF c < 2048 THEN <<192 + (c \div 64), 128 + (c % 64)>>
    ELSE <<224 + (c \div 4096), 128 + ((c \div 64) % 64), 128 + (c % 64)>>

encode_utf8(s) == Flatten([i \in 1..Len(s) |-> utf8_char(s[i])])

\* str.decode('utf8'): the inverse, used when the CSV is read back
RECURSIVE decode_utf8(_)
decode_utf8(b) ==
    IF b = <<>> THEN <<>>
    ELSE IF b[1] < 128 THEN <<b[1]>> \o decode_utf8(Tail(b))
    ELSE IF b[1] < 224 /\ Len(b) >= 2
         THEN <<(b[1] - 192) * 64 + (b[2] - 128)>> \o decode_utf8(SubSeq(b, 3, Len(b)))
    ELSE IF Len(b) >= 3
         THEN <<(b[1] - 224) * 4096 + (b[2] - 128) * 64 + (b[3] - 128)>>
              \o decode_utf8(SubSeq(b, 4, Len(b)))
    ELSE <<65533>>

\* ------------------------------------------------------------------ csv
\* csv.writer(out, quoting=csv.QUOTE_ALL): excel dialect, quotechar '"' (34),
\* doublequote, delimiter ',' (44), lineterminator '\r\n' (13 10)
\* variant: quotes inside a cell are not doubled
QuoteField_nodouble(cell) == <<34>> \o cell \o <<34>>

QuoteField(cell) ==
    <<34>> \o Flatten([i \in 1..Len(cell) |->
                          IF cell[i] = 34 THEN <<34, 34>> ELSE <<cell[i]>>]) \o <<34>>

csv_writerow(cells) ==
    Flatten([j \in 1..Len(cells) |->
                (IF j > 1 THEN <<44>> ELSE <<>>) \o QuoteField(cells[j])]) \o <<13, 10>>

\* csv.reader over the file's lines (excel dialect): one step of the parser
\* on byte c; c = 0 is the end-of-line mark fed after each line of the file
SaveField(s) == [s EXCEPT !.row = Append(s.row, s.field), !.field = <<>>]

reader_step(s, c) ==
    LET nl == c \in {10, 13}
        start_field(r) ==
            IF nl THEN [SaveField(r) EXCEPT !.state = "EAT_CRNL"]
            ELSE IF c = 0 THEN [SaveField(r) EXCEPT !.state = "START_RECORD"]
            ELSE IF c = 34 THEN [r EXCEPT !.state = "IN_QUOTED_FIELD"]
            ELSE IF c = 44 THEN [SaveField(r) EXCEPT !.state = "START_FIELD"]
            ELSE [r EXCEPT !.field = Append(r.field, c), !.state = "IN_FIELD"]
    IN CASE s.state = "START_RECORD" ->
              IF c = 0 THEN s
              ELSE IF nl THEN [s EXCEPT !.state = "EAT_CRNL"]
              ELSE start_field(s)
         [] s.state = "START_FIELD" -> start_field(s)
         [] s.state = "IN_FIELD" ->
              IF nl THEN [SaveField(s) EXCEPT !.state = "EAT_CRNL"]
              ELSE IF c = 0 THEN [SaveField(s) EXCEPT !.state = "START_RECORD"]
              ELSE IF c = 44 THEN [SaveField(s) EXCEPT !.state = "START_FIELD"]
              ELSE [s EXCEPT !.field = Append(s.field, c)]
         [] s.state = "IN_QUOTED_FIELD" ->
              IF c = 0 THEN s
              ELSE IF c = 34 THEN [s EXCEPT !.state = "QUOTE_IN_QUOTED_FIELD"]
              ELSE [s EXCEPT !.field = Append(s.field, c)]
         [] s.state = "QUOTE_IN_QUOTED_FIELD" ->
              IF c = 34 THEN [s EXCEPT !.field = Append(s.field, c),
                                       !.state = "IN_QUOTED_FIELD"]
              ELSE IF c = 44 THEN [SaveField(s) EXCEPT !.state = "START_FIELD"]
              ELSE IF nl THEN [SaveField(s) EXCEPT !.state = "EAT_CRNL"]
              ELSE IF c = 0 THEN [SaveField(s) EXCEPT !.state = "START_RECORD"]
              ELSE [s EXCEPT !.field = Append(s.field, c), !.state = "IN_FIELD"]
         [] s.state = "EAT_CRNL" ->
              IF nl THEN s
              ELSE IF c = 0 THEN [s EXCEPT !.state = "START_RECORD"]
              ELSE [s EXCEPT !.state = "ERROR"]
         [] OTHER -> s

\* the end of a line of the file: the record is returned when the parser is
\* back at START_RECORD, otherwise the field goes on in the next line
reader_eol(s) ==
    LET r == reader_step(s, 0)
    IN IF r.state = "START_RECORD"
       THEN [r EXCEPT !.rows = Append(r.rows, r.row), !.row = <<>>]
       ELSE r

\* the parser fed byte c, and the end-of-line mark after a line feed
reader_feed(s, c) ==
    LET r == reader_step(s, c)
    IN  IF c = 10 THEN reader_eol(r) ELSE r

\* the parser run over bytes lo..hi of b from state s, stopping at an error
\* (halving keeps the evaluation shallow; the bytes are still fed left to right)
RECURSIVE reader_run(_, _, _, _)
reader_run(b, lo, hi, s) ==
    IF lo > hi THEN s
    ELSE IF lo = hi THEN reader_feed(s, b[lo])
    ELSE LET mid == (lo + hi) \div 2
             left == reader_run(b, lo, mid, s)
         IN  IF left.state = "ERROR" THEN left ELSE reader_run(b, mid + 1, hi, left)

csv_reader(b) ==
    reader_run(b, 1, Len(b),
               [state |-> "START_RECORD", field |-> <<>>, row |-> <<>>, rows |-> <<>>]).rows

\* ------------------------------------------------------------------ json
\* json.loads(line): ValueError unless the line is JSON
json_loads(line) ==
    IF line.kind = "invalid" THEN [ok |-> FALSE, err |-> "ValueError", obj |-> line]
    ELSE [ok |-> TRUE, err |-> "none", obj |-> line]

\* obj.get(k, default) on a dict
\* variant: the default is ignored, the text of None stands for a missing key
get_nodefault(d, k, default) == IF k \in DOMAIN d THEN d[k] ELSE Str(<<78, 111, 110, 101>>)

get(d, k, default) == IF k \in DOMAIN d THEN d[k] ELSE default

\* obj.get(k, '').encode('utf8') for one k: only a dict has .get and only a
\* string has .encode; anything else raises AttributeError
Cell(obj, k) ==
    IF obj.kind # "object" THEN [ok |-> FALSE, err |-> "AttributeError", bytes |-> <<>>]
    ELSE LET v == get(obj.obj, k, EmptyStr)
         IN IF v.t = "str" THEN [ok |-> TRUE, err |-> "none", bytes |-> encode_utf8(v.s)]
            ELSE [ok |-> FALSE, err |-> "AttributeError", bytes |-> <<>>]

\* [obj.get(k, '').encode('utf8') for k in fields]
\* variant: a line or value that cannot be encoded gives an empty cell
Row_lenient(obj, flds) ==
    [ok |-> TRUE, err |-> "none",
     cells |-> [j \in 1..Len(flds) |->
                   IF Cell(obj, flds[j]).ok THEN Cell(obj, flds[j]).bytes ELSE <<>>]]

\* variant: missing keys give no cell
Row_dropmissing(obj, flds) ==
    LET present == SelectSeq(flds, LAMBDA k : obj.kind = "object" => k \in DOMAIN obj.obj)
    IN  IF \E j \in 1..Len(present) : ~Cell(obj, present[j]).ok
        THEN [ok |-> FALSE, err |-> "AttributeError", cells |-> <<>>]
        ELSE [ok |-> TRUE, err |-> "none",
              cells |-> [j \in 1..Len(present) |-> Cell(obj, present[j]).bytes]]

Row(obj, flds) ==
    IF \E j \in 1..Len(flds) : ~Cell(obj, flds[j]).ok
    THEN [ok |-> FALSE, err |-> "AttributeError", cells |-> <<>>]
    ELSE [ok |-> TRUE, err |-> "none", cells |-> [j \in 1..Len(flds) |-> Cell(obj, flds[j]).bytes]]

\* ------------------------------------------------------------------ inputs
Obj(f) == [kind |-> "object", obj |-> f]
NoObj(k) == [kind |-> k, obj |-> <<>>]

\* "Widget", "Acme", 'a"', 'e-acute , LF'
Widget == <<87, 105, 100, 103, 101, 116>>
Acme == <<65, 99, 109, 101>>

Lines ==
    { NoObj("invalid"), NoObj("array"), NoObj("null"),
      Obj(<<>>),
      Obj("product_name" :> Str(Widget) @@ "manufacturer" :> Str(Acme)),
      Obj("product_name" :> Str(<<97, 34>>) @@ "family" :> Str(<<233, 44, 10>>)
            @@ "price" :> Str(<<55>>)),
      Obj("product_name" :> Str(<<>>) @@ "manufacturer" :> Str(<<34, 34, 44>>)
            @@ "family" :> Str(<<8364>>)),
      Obj("product_name" :> Str(<<97>>) @@ "manufacturer" :> Num(<<55>>)),
      Obj("family" :> Bool(<<116, 114, 117, 101>>)),
      Obj("manufacturer" :> Str(<<10>>) @@ "price" :> Num(<<55>>)) }

FieldLists ==
    { <<>>, <<"product_name">>, <<"product_name", "manufacturer", "family">>,
      <<"family", "product_name">>, <<"manufacturer", "manufacturer">> }

SeqsUpTo(S, n) == UNION {[1..m -> S] : m \in 0..n}

Old == <<111, 108, 100, 10>>
Missing == [exists |-> FALSE, writable |-> TRUE, data |-> <<>>]
Existing == [exists |-> TRUE, writable |-> TRUE, data |-> Old]
ReadOnly == [exists |-> TRUE, writable |-> FALSE, data |-> Old]
DestStates == {Missing, Existing, ReadOnly}

\* the inputs list of __main__
inputs ==
    << [source |-> "resources/data/products.txt", dest |-> "products.csv",
        fields |-> <<"product_name", "manufacturer", "family", "model", "announced-date">>],
       [source |-> "resources/data/listings.txt", dest |-> "listings.csv",
        fields |-> <<"title", "manufacturer", "currency", "price">>] >>

SourcePaths == {inputs[j].source : j \in 1..Len(inputs)}
DestPaths == {inputs[j].dest : j \in 1..Len(inputs)}
Paths == DestPaths \cup {"other.csv"}

\* ------------------------------------------------------------------ write_csv
Data == files[outcsv].data

\* open(outcsv, 'w') fails: IOError, nothing is written
OpenFail ==
    /\ pc = "open"
    /\ ~files[outcsv].writable
    /\ pc' = "raised"
    /\ err' = "IOError"
    /\ UNCHANGED <<sources, files, before, jsonlines, outcsv, fields, it, mpc, job>>

\* open(outcsv, 'w'): the file is created or truncated
\* variant: open(outcsv, 'a'), the earlier content is kept
Open_append ==
    /\ pc = "open"
    /\ files[outcsv].writable
    /\ files' = [files EXCEPT ![outcsv] = [exists |-> TRUE, writable |-> TRUE, data |-> @.data]]
    /\ pc' = "header"
    /\ UNCHANGED <<sources, before, jsonlines, outcsv, fields, it, err, mpc, job>>

Open ==
    /\ pc = "open"
    /\ files[outcsv].writable
    /\ files' = [files EXCEPT ![outcsv] = [exists |-> TRUE, writable |-> TRUE, data |-> <<>>]]
    /\ pc' = "header"
    /\ UNCHANGED <<sources, before, jsonlines, outcsv, fields, it, err, mpc, job>>

\* csvf.writerow(fields)
\* variant: no header row
WriteHeader_none ==
    /\ pc = "header"
    /\ pc' = "loop"
    /\ UNCHANGED <<sources, files, before, jsonlines, outcsv, fields, it, err, mpc, job>>

WriteHeader ==
    /\ pc = "header"
    /\ files' = [files EXCEPT ![outcsv].data =
                    @ \o csv_writerow([j \in 1..Len(fields) |-> NameBytes(fields[j])])]
    /\ pc' = "loop"
    /\ UNCHANGED <<sources, before, jsonlines, outcsv, fields, it, err, mpc, job>>

\* what one pass of the loop body makes of a line
Body(line) ==
    LET parsed == json_loads(line)
    IN  IF ~parsed.ok THEN [ok |-> FALSE, err |-> parsed.err, cells |-> <<>>]
        ELSE Row(parsed.obj, fields)

\* one pass of `for line in jsonlines` that writes its row
\* variant: the iterator advances twice per row
Iterate_skip ==
    /\ pc = "loop"
    /\ it <= Len(jsonlines)
    /\ Body(jsonlines[it]).ok
    /\ files' = [files EXCEPT ![outcsv].data = @ \o csv_writerow(Body(jsonlines[it]).cells)]
    /\ it' = it + 2
    /\ UNCHANGED <<sources, before, jsonlines, outcsv, fields, pc, err, mpc, job>>

Iterate ==
    /\ pc = "loop"
    /\ it <= Len(jsonlines)
    /\ Body(jsonlines[it]).ok
    /\ files' = [files EXCEPT ![outcsv].data = @ \o csv_writerow(Body(jsonlines[it]).cells)]
    /\ it' = it + 1
    /\ UNCHANGED <<sources, before, jsonlines, outcsv, fields, pc, err, mpc, job>>

\* one pass that raises: the exception leaves the loop and the `with` block
\* (which closes the file) and propagates out of write_csv
\* variant: the exception is swallowed and the loop goes on
IterateRaise_continue ==
    /\ pc = "loop"
    /\ it <= Len(jsonlines)
    /\ ~Body(jsonlines[it]).ok
    /\ it' = it + 1
    /\ UNCHANGED <<sources, files, before, jsonlines, outcsv, fields, pc, err, mpc, job>>

\* variant: the destination is removed on failure
IterateRaise_unlink ==
    /\ pc = "loop"
    /\ it <= Len(jsonlines)
    /\ ~Body(jsonlines[it]).ok
    /\ files' = [files EXCEPT ![outcsv] = [exists |-> FALSE, writable |-> TRUE, data |-> <<>>]]
    /\ pc' = "raised"
    /\ err' = Body(jsonlines[it]).err
    /\ UNCHANGED <<sources, before, jsonlines, outcsv, fields, it, mpc, job>>

IterateRaise ==
    /\ pc = "loop"
    /\ it <= Len(jsonlines)
    /\ ~Body(jsonlines[it]).ok
    /\ pc' = "raised"
    /\ err' = Body(jsonlines[it]).err
    /\ UNCHANGED <<sources, files, before, jsonlines, outcsv, fields, it, mpc, job>>

\* the iterator is exhausted: the file is closed and write_csv returns
Exhausted ==
    /\ pc = "loop"
    /\ it > Len(jsonlines)
    /\ pc' = "returned"
    /\ UNCHANGED <<sources, files, before, jsonlines, outcsv, fields, it, err, mpc, job>>

\* write_csv(jsonlines, outcsv, fields) called with arbitrary arguments
Init ==
    /\ sources = [p \in SourcePaths |-> [exists |-> FALSE, lines |-> <<>>]]
    /\ outcsv = "products.csv"
    /\ \E d \in DestStates : files = [p \in Paths |-> IF p = outcsv THEN d ELSE Existing]
    /\ before = files
    /\ jsonlines \in SeqsUpTo(Lines, MaxLines)
    /\ fields \in FieldLists
    /\ it = 1
    /\ pc = "open"
    /\ err = "none"
    /\ mpc = "direct"
    /\ job = 0

Next == OpenFail \/ Open \/ WriteHeader \/ Iterate \/ IterateRaise \/ Exhausted

Spec == Init /\ [][Next]_vars

\* ------------------------------------------------------------------ __main__
ProductLines ==
    { NoObj("invalid"),
      Obj("product_name" :> Str(Widget) @@ "manufacturer" :> Str(Acme)),
      Obj("product_name" :> Str(<<97, 34>>) @@ "manufacturer" :> Str(Acme)
            @@ "family" :> Str(<<233>>) @@ "model" :> Str(<<55>>)
            @@ "announced-date" :> Str(<<50, 48, 49, 48>>) @@ "price" :> Str(<<55>>)) }

ListingLines ==
    { NoObj("array"),
      Obj("title" :> Str(<<97, 44, 34>>) @@ "manufacturer" :> Str(Acme)
            @@ "currency" :> Str(<<67, 65, 68>>) @@ "price" :> Str(<<51, 53, 46, 57>>)),
      Obj("title" :> Str(<<97>>) @@ "price" :> Num(<<51, 53, 46, 57>>)) }

SourceLines(p) == IF p = inputs[1].source THEN ProductLines ELSE ListingLines

SourceStates(p) ==
    {[exists |-> FALSE, lines |-> <<>>]}
        \cup {[exists |-> TRUE, lines |-> l] : l \in SeqsUpTo(SourceLines(p), MaxMainLines)}

\* open(f.source) fails: IOError leaves the for loop and ends the program
MainOpenSourceFail ==
    /\ mpc = "for"
    /\ job <= Len(inputs)
    /\ ~sources[inputs[job].source].exists
    /\ mpc' = "aborted"
    /\ err' = "IOError"
    /\ UNCHANGED <<sources, files, before, jsonlines, outcsv, fields, it, pc, job>>

\* with open(f.source) as source: write_csv(source, f.dest, f.fields)
MainOpenSource ==
    /\ mpc = "for"
    /\ job <= Len(inputs)
    /\ sources[inputs[job].source].exists
    /\ jsonlines' = sources[inputs[job].source].lines
    /\ outcsv' = inputs[job].dest
    /\ fields' = inputs[job].fields
    /\ it' = 1
    /\ pc' = "open"
    /\ err' = "none"
    /\ mpc' = "call"
    /\ UNCHANGED <<sources, files, before, job>>

\* write_csv returned: the loop goes on with the next input
MainReturn ==
    /\ mpc = "call"
    /\ pc = "returned"
    /\ job' = job + 1
    /\ mpc' = "for"
    /\ pc' = "idle"
    /\ UNCHANGED <<sources, files, before, jsonlines, outcsv, fields, it, err>>

\* write_csv raised: nothing catches it, the program ends
\* variant: the exception is swallowed and the next input is run
MainRaise_continue ==
    /\ mpc = "call"
    /\ pc = "raised"
    /\ job' = job + 1
    /\ mpc' = "for"
    /\ pc' = "idle"
    /\ UNCHANGED <<sources, files, before, jsonlines, outcsv, fields, it, err>>

MainRaise ==
    /\ mpc = "call"
    /\ pc = "raised"
    /\ mpc' = "aborted"
    /\ UNCHANGED <<sources, files, before, jsonlines, outcsv, fields, it, pc, err, job>>

\* the inputs are exhausted
MainExit ==
    /\ mpc = "for"
    /\ job > Len(inputs)
    /\ mpc' = "exit"
    /\ UNCHANGED <<sources, files, before, jsonlines, outcsv, fields, it, pc, err, job>>

InitMain ==
    /\ sources \in [SourcePaths -> UNION {SourceStates(p) : p \in SourcePaths}]
    /\ \A p \in SourcePaths : sources[p] \in SourceStates(p)
    /\ files \in [Paths -> DestStates]
    /\ files["other.csv"] = Existing
    /\ before = files
    /\ jsonlines = <<>>
    /\ outcsv = inputs[1].dest
    /\ fields = <<>>
    /\ it = 1
    /\ pc = "idle"
    /\ err = "none"
    /\ mpc = "for"
    /\ job = 1

NextMain ==
    \/ MainOpenSourceFail \/ MainOpenSource \/ MainReturn \/ MainRaise \/ MainExit
    \/ OpenFail \/ Open \/ WriteHeader \/ Iterate \/ IterateRaise \/ Exhausted

SpecMain == InitMain /\ [][NextMain]_vars

\* ------------------------------------------------------------------ properties
\* the destination read back with csv.reader
OutRows == csv_reader(Data)

\* the destination has been opened for writing by the current call
Started == pc \in {"header", "loop", "returned"} \/ (pc = "raised" /\ err # "IOError")

HeaderCells == [j \in 1..Len(fields) |-> NameBytes(fields[j])]
DecodeRow(r) == [j \in 1..Len(r) |-> decode_utf8(r[j])]

\* the projection of a line onto a field list, as text
Projection(line, flds) ==
    [j \in 1..Len(flds) |->
        IF line.kind = "object" /\ flds[j] \in DOMAIN line.obj
        THEN line.obj[flds[j]].s ELSE <<>>]

IsObject(line) == line.kind = "object"
IsNonObject(line) == line.kind \in {"array", "null"}
HasNonString(line, flds) ==
    IsObject(line) /\ \E j \in 1..Len(flds) :
        flds[j] \in DOMAIN line.obj /\ line.obj[flds[j]].t # "str"

\* the lines write_csv cannot turn into a row
Fails(line, flds) ==
    \/ line.kind = "invalid"
    \/ flds # <<>> /\ (IsNonObject(line) \/ HasNonString(line, flds))

\* C1: the rows after the header are, in order, the projections of the input
\* lines onto the field list: row i+1 is the projection of line i and of
\* nothing else, and after write_csv returns no line is missing.
C1_RowsAreProjections ==
    Started =>
        /\ Len(OutRows) <= Len(jsonlines) + 1
        /\ \A i \in 1..(Len(OutRows) - 1) :
              DecodeRow(OutRows[i + 1]) = Projection(jsonlines[i], fields)
        /\ pc = "returned" => Len(OutRows) = Len(jsonlines) + 1

C1_Witness ==
    /\ pc = "returned"
    /\ Len(jsonlines) >= 2
    /\ fields # <<>>
    /\ Projection(jsonlines[1], fields) # Projection(jsonlines[2], fields)

\* C2: the header is written before any data row and is the field list; after
\* k lines have been processed the output holds k + 1 rows; after write_csv
\* returns it holds n + 1 rows (only the header for n = 0).
C2_RowCount ==
    /\ pc = "header" => OutRows = <<>>
    /\ pc = "loop" => Len(OutRows) = it /\ OutRows[1] = HeaderCells
    /\ pc = "returned" => Len(OutRows) = Len(jsonlines) + 1 /\ OutRows[1] = HeaderCells
    /\ pc = "returned" /\ jsonlines = <<>> => OutRows = <<HeaderCells>>

C2_Witness == pc = "returned" /\ Len(jsonlines) >= 2 /\ Len(OutRows) = Len(jsonlines) + 1

\* C3: every row in the destination, header included, has as many cells as
\* the field list has entries, at every point of the run and after an abort.
C3_RowLength ==
    Started => \A r \in 1..Len(OutRows) : Len(OutRows[r]) = Len(fields)

C3_Witness ==
    /\ pc = "raised"
    /\ Len(OutRows) >= 2
    /\ Len(fields) >= 2
    /\ \E k \in DOMAIN jsonlines[1].obj : \A j \in 1..Len(fields) : fields[j] # k
    /\ \E j \in 1..Len(fields) : fields[j] \notin DOMAIN jsonlines[1].obj

\* C4: each cell is the record's value for the field when the key is present
\* and the empty string when it is absent; a missing field never raises; keys
\* outside the field list do not appear.
C4_LookupWithDefault ==
    /\ Started =>
          \A i \in 2..Len(OutRows) :
              /\ Len(OutRows[i]) = Len(fields)
              /\ \A j \in 1..Len(fields) :
                    LET o == jsonlines[i - 1].obj
                    IN  OutRows[i][j] = IF fields[j] \in DOMAIN o
                                        THEN encode_utf8(o[fields[j]].s)
                                        ELSE <<>>
    /\ pc = "raised" /\ err = "AttributeError" =>
          IsNonObject(jsonlines[it]) \/ HasNonString(jsonlines[it], fields)

C4_Witness ==
    /\ Started
    /\ fields = <<"product_name", "manufacturer", "family">>
    /\ Len(OutRows) >= 2
    /\ OutRows[2] = <<Widget, Acme, <<>> >>
    /\ "family" \notin DOMAIN jsonlines[1].obj

\* C5: a line that is not JSON stops write_csv with the error raised there
\* (ValueError, once the destination is open and the loop reaches the line):
\* the iterator never gets past it, no row is written for it or after it, and
\* write_csv does not return.
C5_AbortAtInvalid ==
    \A i \in 1..Len(jsonlines) :
        jsonlines[i].kind = "invalid" =>
            /\ it <= i
            /\ pc # "returned"
            /\ Started => Len(OutRows) <= i
            /\ Started /\ pc = "raised" /\ it = i => err = "ValueError"
            /\ pc = "loop" /\ it = i => ENABLED IterateRaise /\ ~ENABLED Iterate

C5_Witness ==
    /\ pc = "raised"
    /\ err = "ValueError"
    /\ it < Len(jsonlines)
    /\ ~Fails(jsonlines[it + 1], fields)
    /\ Len(OutRows) = it

\* C6 as stated: whenever all lines are JSON objects, write_csv does not fail
\* and every present field reads back as the text of its value, numbers and
\* booleans included.
C6_RoundTripAnyValue ==
    (Started /\ \A i \in 1..Len(jsonlines) : IsObject(jsonlines[i])) =>
        /\ pc # "raised"
        /\ \A i \in 2..Len(OutRows) : \A j \in 1..Len(fields) :
              fields[j] \in DOMAIN jsonlines[i - 1].obj =>
                  decode_utf8(OutRows[i][j]) = jsonlines[i - 1].obj[fields[j]].s

\* C6 amended: every present field of a written row is a string and reads
\* back exactly; a requested field holding a number or a boolean makes
\* write_csv raise AttributeError at that line instead of writing a row.
C6_RoundTripStrings ==
    /\ Started =>
          \A i \in 2..Len(OutRows) : \A j \in 1..Len(fields) :
              fields[j] \in DOMAIN jsonlines[i - 1].obj =>
                  /\ jsonlines[i - 1].obj[fields[j]].t = "str"
                  /\ j <= Len(OutRows[i])
                  /\ decode_utf8(OutRows[i][j]) = jsonlines[i - 1].obj[fields[j]].s
    /\ \A i \in 1..Len(jsonlines) :
          HasNonString(jsonlines[i], fields) =>
              /\ it <= i
              /\ pc # "returned"
              /\ Started /\ pc = "raised" /\ it = i => err = "AttributeError"

C6_Witness ==
    /\ pc = "returned"
    /\ \E i \in 1..Len(jsonlines) : \E j \in 1..Len(fields) :
          /\ fields[j] \in DOMAIN jsonlines[i].obj
          /\ jsonlines[i].obj[fields[j]].s = <<233, 44, 10>>
          /\ decode_utf8(OutRows[i + 1][j]) = <<233, 44, 10>>
    /\ \E i \in 1..Len(jsonlines) : \E j \in 1..Len(fields) :
          /\ fields[j] \in DOMAIN jsonlines[i].obj
          /\ jsonlines[i].obj[fields[j]].s = <<97, 34>>

\* C7 as stated: a JSON line that is not an object makes write_csv fail, and
\* with the error of a line that is not JSON (ValueError, the parse error).
C7_NonObjectIsParseError ==
    \A i \in 1..Len(jsonlines) :
        IsNonObject(jsonlines[i]) =>
            /\ pc # "returned"
            /\ Started /\ pc = "raised" /\ it = i => err = "ValueError"

\* C7 amended: with a non-empty field list a JSON line that is not an object
\* stops write_csv with AttributeError (not the ValueError of a line that is
\* not JSON), no row written for it or after it; with an empty field list it
\* gives an empty row.
C7_NonObjectAttributeError ==
    \A i \in 1..Len(jsonlines) :
        IsNonObject(jsonlines[i]) =>
            /\ fields # <<>> =>
                  /\ it <= i
                  /\ pc # "returned"
                  /\ Started => Len(OutRows) <= i
                  /\ Started /\ pc = "raised" /\ it = i => err = "AttributeError"
            /\ fields = <<>> /\ Started /\ Len(OutRows) > i => OutRows[i + 1] = <<>>

C7_Witness ==
    /\ pc = "raised"
    /\ err = "AttributeError"
    /\ it >= 2
    /\ jsonlines[it].kind = "array"
    /\ Len(OutRows) = it

\* the first line write_csv fails on (Len + 1 when there is none)
FirstFailing(ls, flds) ==
    IF \E i \in 1..Len(ls) : Fails(ls[i], flds)
    THEN CHOOSE i \in 1..Len(ls) :
            Fails(ls[i], flds) /\ \A m \in 1..(i - 1) : ~Fails(ls[m], flds)
    ELSE Len(ls) + 1

\* C10: when write_csv fails at line i the destination exists and holds the
\* header followed by the rows of lines 1..i-1 and nothing else: not its
\* earlier content, and it is not removed.
C10_PartialOutput ==
    pc = "raised" /\ err # "IOError" =>
        /\ it = FirstFailing(jsonlines, fields)
        /\ files[outcsv].exists
        /\ OutRows = <<HeaderCells>> \o
              [i \in 1..(it - 1) |->
                  [j \in 1..Len(fields) |-> encode_utf8(Projection(jsonlines[i], fields)[j])]]

C10_Witness ==
    /\ pc = "raised"
    /\ err # "IOError"
    /\ it >= 2
    /\ before[outcsv].exists
    /\ before[outcsv].data # <<>>
    /\ fields # <<>>

\* ------------------------------------------------------------------ jobs
Dest(j) == inputs[j].dest
Source(j) == sources[inputs[j].source]
Jobs == 1..Len(inputs)

\* job j's destination has been opened for writing
Opened(j) == job > j \/ (job = j /\ Started)

RowsOf(ls, flds) ==
    [i \in 1..Len(ls) |->
        [m \in 1..Len(flds) |-> encode_utf8(Projection(ls[i], flds)[m])]]

C8_State ==
    /\ \A p \in Paths : (\A j \in Jobs : Dest(j) = p => ~Opened(j)) => files[p] = before[p]
    /\ \A j \in Jobs :
          job > j =>
              /\ files[Dest(j)].exists
              /\ csv_reader(files[Dest(j)].data) =
                    <<[m \in 1..Len(inputs[j].fields) |-> NameBytes(inputs[j].fields[m])]>>
                        \o RowsOf(Source(j).lines, inputs[j].fields)
    /\ \A j \in Jobs :
          ~Source(j).exists \/ ~before[Dest(j)].writable =>
              /\ job <= j
              /\ files[Dest(j)] = before[Dest(j)]
              /\ job = j => pc # "returned"
              /\ job = j /\ mpc = "aborted" => err = "IOError"

C8_Step ==
    /\ sources' = sources
    /\ mpc = "call" => <<jsonlines, outcsv, fields>>' = <<jsonlines, outcsv, fields>>
    /\ \A p \in Paths : p # outcsv' => files'[p] = files[p]

\* C8: a job changes its destination and nothing else: after a successful
\* write_csv the destination holds exactly the header and the projected rows
\* whatever it held before; the sources, the arguments of the call and every
\* other file stay as they are; when the source is missing or the destination
\* cannot be opened the job raises IOError and writes nothing.
C8_Frame == []C8_State /\ [][C8_Step]_vars

C8_Witness ==
    /\ mpc = "exit"
    /\ \A j \in Jobs : before[Dest(j)].exists /\ before[Dest(j)].data # <<>>
    /\ \A j \in Jobs : Len(Source(j).lines) >= 1
    /\ files["other.csv"] = before["other.csv"]

\* job j, run on its own, completes
JobOk(j) ==
    /\ Source(j).exists
    /\ before[Dest(j)].writable
    /\ FirstFailing(Source(j).lines, inputs[j].fields) > Len(Source(j).lines)

\* the destination job j, run on its own, leaves behind
RunAlone(j) ==
    IF ~Source(j).exists \/ ~before[Dest(j)].writable THEN before[Dest(j)]
    ELSE LET ls == Source(j).lines
             flds == inputs[j].fields
             n == FirstFailing(ls, flds) - 1
         IN  [exists |-> TRUE, writable |-> TRUE,
              data |-> csv_writerow([m \in 1..Len(flds) |-> NameBytes(flds[m])])
                          \o Flatten([i \in 1..n |-> csv_writerow(RowsOf(ls, flds)[i])])]

Finished == mpc \in {"exit", "aborted"}

\* C9 as stated: when the program has ended each destination holds what its
\* own job leaves behind, whatever happened to the other job.
C9_Independent ==
    Finished => \A j \in Jobs : files[Dest(j)] = RunAlone(j)

\* C9 amended: a job that runs leaves in its destination what it would leave
\* run on its own, but the jobs run in the order of the inputs list and a
\* failing job ends the program: the destination of a job after a failed one
\* is left as it was.
C9_IndependentUntilAbort ==
    Finished =>
        /\ \A j \in Jobs :
              files[Dest(j)] = IF \A m \in 1..(j - 1) : JobOk(m)
                               THEN RunAlone(j) ELSE before[Dest(j)]
        /\ mpc = "exit" <=> \A j \in Jobs : JobOk(j)

C9_Witness ==
    /\ mpc = "aborted"
    /\ job = 1
    /\ err = "ValueError"
    /\ RunAlone(2) # before[Dest(2)]
    /\ files[Dest(2)] = before[Dest(2)]

====
